---- MODULE Spec2Model ----
(***************************************************************************)
(* The prediction ledger and the adaptive learner of lotto_ai:             *)
(*   tracking/prediction_tracker.py  (PredictionTracker)                   *)
(*   learning/adaptive_learner.py    (AdaptiveLearner)                     *)
(*   scraper/scrape_lotto_max.py     (the draws table)                     *)
(*                                                                         *)
(* The SQLite tables are sequences of rows in rowid order.  A timestamp    *)
(* (datetime.now().isoformat()) is the value of a clock that every call    *)
(* of datetime.now() advances; ISO strings compare as the instants do.     *)
(* A draw date (YYYY-MM-DD text) is a small integer with the same order.   *)
(* A REAL weight is kept in hundredths (0.70 is 70); a hit rate, the       *)
(* quotient of two integers, is kept as the pair [num, den] and compared   *)
(* with 0.05 and 0.03 by cross-multiplication.                             *)
(***************************************************************************)
EXTENDS Integers, Sequences, FiniteSets, TLC

VARIABLES
    predictions,         \* table predictions
    prediction_results,  \* table prediction_results
    adaptive_weights,    \* table adaptive_weights
    draws,               \* table draws: draw_date -> <<n1..n7>> or NoDraw
    clock,               \* the next value of datetime.now()
    learner,             \* TRUE once an AdaptiveLearner has been constructed
    call,                \* the last public operation called, with its arguments
    ret,                 \* what that call returned or raised
    pc,                  \* per concurrent driver: its position in auto_evaluate_pending
    pending,             \* per concurrent driver: its list from get_unevaluated_predictions
    df_draws,            \* per concurrent driver: its copy of the draws from load_draws
    pos,                 \* per concurrent driver: index of the loop over pending
    row                  \* per concurrent driver: the row its evaluate_prediction selected

vars == <<predictions, prediction_results, adaptive_weights, draws, clock,
          learner, call, ret, pc, pending, df_draws, pos, row>>

store == <<predictions, prediction_results, adaptive_weights>>
procs == <<pc, pending, df_draws, pos, row>>

---------------------------------------------------------------------------
(* Bounds of the model *)

\* save_prediction calls in one run (beyond the earlier sessions' ledger)
MaxNewPredictions == 2
\* rows of prediction_results written in one run
MaxNewResults == 2
\* successful update_weights calls in one run
MaxUpdates == 2
\* the draw dates of a run are 1..MaxDate (0 is the earlier sessions' date)
MaxDate == 2
\* resolved predictions an earlier session may have left in the ledger
HistoryLen == 4

---------------------------------------------------------------------------
(* Values *)

Strategies == {"hybrid_v1", "other"}
Dates == 0..MaxDate
NewDates == 1..MaxDate
NoDraw == <<>>

TicketA == <<1, 2, 3, 4, 5, 6, 7>>
TicketB == <<8, 9, 10, 11, 12, 13, 14>>
\* the strategies and ticket lists save_prediction is called with
Portfolios == {[strategy_name |-> "hybrid_v1", tickets |-> <<TicketA>>],
               [strategy_name |-> "hybrid_v1", tickets |-> <<>>],
               [strategy_name |-> "other", tickets |-> <<TicketB, TicketA>>]}

\* the winning numbers of a draw, n1..n7 in ascending order
DrawHit == <<1, 2, 3, 8, 9, 10, 11>>
DrawMiss == <<1, 2, 20, 21, 22, 23, 24>>
DrawNumbers == {DrawHit, DrawMiss}
\* the draw the scraper finds for a date of the run
DrawOf(d) == IF d = 1 THEN DrawHit ELSE DrawMiss

\* the window sizes update_weights and get_strategy_performance are called with
Windows == {3, 20}

Range(s) == {s[i] : i \in DOMAIN s}

\* sum(list), added up by halves
RECURSIVE SumSeq(_)
SumSeq(s) ==
    IF s = <<>> THEN 0
    ELSE IF Len(s) = 1 THEN s[1]
    ELSE SumSeq(SubSeq(s, 1, Len(s) \div 2))
             + SumSeq(SubSeq(s, Len(s) \div 2 + 1, Len(s)))

MaxSeq(s) == CHOOSE m \in Range(s) : \A x \in Range(s) : x <= m

\* ORDER BY key ASC of rows whose keys are keys[i]; equal keys keep rowid order
OrderByAsc(rows, keys) ==
    LET n == Len(rows)
        rank(i) == Cardinality({j \in 1..n :
                       keys[j] < keys[i] \/ (keys[j] = keys[i] /\ j < i)}) + 1
    IN  [r \in 1..n |-> rows[CHOOSE i \in 1..n : rank(i) = r]]

\* ORDER BY key DESC
OrderByDesc(rows, keys) ==
    LET n == Len(rows)
        rank(i) == Cardinality({j \in 1..n :
                       keys[j] > keys[i] \/ (keys[j] = keys[i] /\ j < i)}) + 1
    IN  [r \in 1..n |-> rows[CHOOSE i \in 1..n : rank(i) = r]]

\* WHERE: the rows satisfying a test, in order
SelectIdx(n, keep) ==
    LET kept == {i \in 1..n : i \in keep}
    IN  [k \in 1..Cardinality(kept) |->
            CHOOSE i \in kept : Cardinality({j \in kept : j < i}) = k - 1]

\* LIMIT n: a negative limit of SQLite is no limit
Limit(rows, n) ==
    IF n < 0 \/ n >= Len(rows) THEN rows ELSE SubSeq(rows, 1, n)

---------------------------------------------------------------------------
(* PredictionTracker *)

\* datetime.now().isoformat(): the reading of the clock
Now(clk) == clk

\* what a call returns when it returns None
None == [none |-> TRUE]

\* a rowid that takes the number of rows as it is: the last row's id again
NextRowId_Reuse(table) == IF Len(table) = 0 THEN 1 ELSE Len(table)

\* INTEGER PRIMARY KEY AUTOINCREMENT: one more than the largest rowid ever used
\* (no row is ever deleted, so that is the number of rows)
NextRowId(table) == Len(table) + 1

\* save_prediction: INSERT INTO predictions; evaluated takes its DEFAULT 0.
\* tickets is stored as json.dumps(tickets) and read back with json.loads,
\* which for lists of lists of integers returns the lists that were stored.
\* The columns created_at, model_version and metadata are written here and
\* read by no operation of the tracker or the learner; the rows of the model
\* leave them out, and the clock is read only for the timestamps that
\* queries order by (evaluated_at, updated_at).
save_prediction(preds, clk, target_draw_date, strategy_name, tickets) ==
    LET prediction_id == NextRowId(preds)
    IN  [predictions |-> Append(preds,
             [prediction_id    |-> prediction_id,
              target_draw_date |-> target_draw_date,
              strategy_name    |-> strategy_name,
              portfolio_size   |-> Len(tickets),
              tickets          |-> tickets,
              evaluated        |-> FALSE]),
         clock |-> clk,
         value |-> prediction_id]

\* SelectPrediction without its WHERE: every row is fetched, whatever its id
SelectPrediction_NoWhere(preds, prediction_id) ==
    [k \in 1..Len(preds) |-> [tickets       |-> preds[k].tickets,
                              strategy_name |-> preds[k].strategy_name]]

\* SELECT tickets, strategy_name FROM predictions WHERE prediction_id = ?
SelectPrediction(preds, prediction_id) ==
    LET hit == SelectIdx(Len(preds),
                   {i \in 1..Len(preds) : preds[i].prediction_id = prediction_id})
    IN  [k \in 1..Len(hit) |-> [tickets       |-> preds[hit[k]].tickets,
                                strategy_name |-> preds[hit[k]].strategy_name]]

\* TicketMatches counting the positions at which ticket and draw agree
TicketMatches_Positional(tickets, actual_numbers) ==
    [i \in 1..Len(tickets) |->
        Cardinality({k \in 1..Len(tickets[i]) :
            k <= Len(actual_numbers) /\ tickets[i][k] = actual_numbers[k]})]

\* TicketMatches with the counts in the reverse of the tickets' order
TicketMatches_Reversed(tickets, actual_numbers) ==
    [i \in 1..Len(tickets) |->
        Cardinality(Range(tickets[Len(tickets) + 1 - i]) \cap Range(actual_numbers))]

\* matches = len(set(ticket) & set(actual_numbers)), for each ticket in order
TicketMatches(tickets, actual_numbers) ==
    [i \in 1..Len(tickets) |->
        Cardinality(Range(tickets[i]) \cap Range(actual_numbers))]

\* prize_table without its entry for 3 matches
prize_table_No3(m) ==
    CASE m = 7 -> 10000000
      [] m = 6 -> 100000
      [] m = 5 -> 1500
      [] m = 4 -> 50
      [] OTHER -> 0

\* prize_table.get(m, 0)
prize_table(m) ==
    CASE m = 7 -> 10000000
      [] m = 6 -> 100000
      [] m = 5 -> 1500
      [] m = 4 -> 50
      [] m = 3 -> 20
      [] OTHER -> 0

\* _calculate_prize_value: sum(prize_table.get(m, 0) for m in matches_list)
calculate_prize_value(matches_list) ==
    SumSeq([i \in 1..Len(matches_list) |-> prize_table(matches_list[i])])

\* WriteResult with "SET evaluated = NOT evaluated": the flag is flipped
WriteResult_Toggle(preds, results, clk, prediction_id, actual_numbers, ticket_matches) ==
    [predictions |->
        [i \in 1..Len(preds) |->
            IF preds[i].prediction_id = prediction_id
            THEN [preds[i] EXCEPT !.evaluated = ~preds[i].evaluated]
            ELSE preds[i]],
     prediction_results |-> Append(results,
        [result_id      |-> NextRowId(results),
         prediction_id  |-> prediction_id,
         actual_numbers |-> actual_numbers,
         evaluated_at   |-> Now(clk),
         best_match     |-> MaxSeq(ticket_matches),
         total_matches  |-> SumSeq(ticket_matches),
         prize_value    |-> calculate_prize_value(ticket_matches),
         ticket_matches |-> ticket_matches]),
     clock |-> clk + 1]

\* WriteResult without its UPDATE: the Result is inserted and the prediction
\* is left unevaluated
WriteResult_NoUpdate(preds, results, clk, prediction_id, actual_numbers, ticket_matches) ==
    [predictions |-> preds,
     prediction_results |-> Append(results,
        [result_id      |-> NextRowId(results),
         prediction_id  |-> prediction_id,
         actual_numbers |-> actual_numbers,
         evaluated_at   |-> Now(clk),
         best_match     |-> MaxSeq(ticket_matches),
         total_matches  |-> SumSeq(ticket_matches),
         prize_value    |-> calculate_prize_value(ticket_matches),
         ticket_matches |-> ticket_matches]),
     clock |-> clk + 1]

\* INSERT INTO prediction_results ... ; UPDATE predictions SET evaluated = 1
\* WHERE prediction_id = ? ; conn.commit(): one transaction
WriteResult(preds, results, clk, prediction_id, actual_numbers, ticket_matches) ==
    [predictions |->
        [i \in 1..Len(preds) |->
            IF preds[i].prediction_id = prediction_id
            THEN [preds[i] EXCEPT !.evaluated = TRUE]
            ELSE preds[i]],
     prediction_results |-> Append(results,
        [result_id      |-> NextRowId(results),
         prediction_id  |-> prediction_id,
         actual_numbers |-> actual_numbers,
         evaluated_at   |-> Now(clk),
         best_match     |-> MaxSeq(ticket_matches),
         total_matches  |-> SumSeq(ticket_matches),
         prize_value    |-> calculate_prize_value(ticket_matches),
         ticket_matches |-> ticket_matches]),
     clock |-> clk + 1]

\* the part of evaluate_prediction after the SELECT, given the rows it fetched
EvaluateRow(rows, preds, results, clk, prediction_id, actual_numbers) ==
    IF rows = <<>>
    THEN \* raise ValueError(f"Prediction {prediction_id} not found")
         [status |-> "ValueError", value |-> [error |-> "not found"],
          predictions |-> preds, prediction_results |-> results, clock |-> clk]
    ELSE LET ticket_matches == TicketMatches(rows[1].tickets, actual_numbers)
         IN  IF ticket_matches = <<>>
             THEN \* max([]) raises ValueError before anything is written
                  [status |-> "ValueError",
                   value |-> [error |-> "max() arg is an empty sequence"],
                   predictions |-> preds, prediction_results |-> results, clock |-> clk]
             ELSE LET w == WriteResult(preds, results, clk, prediction_id,
                                       actual_numbers, ticket_matches)
                  IN  [status |-> "ok",
                       value  |-> [prediction_id  |-> prediction_id,
                                   strategy_name  |-> rows[1].strategy_name,
                                   best_match     |-> MaxSeq(ticket_matches),
                                   total_matches  |-> SumSeq(ticket_matches),
                                   prize_value    |-> calculate_prize_value(ticket_matches),
                                   ticket_matches |-> ticket_matches],
                       predictions        |-> w.predictions,
                       prediction_results |-> w.prediction_results,
                       clock              |-> w.clock]

evaluate_prediction(preds, results, clk, prediction_id, actual_numbers) ==
    EvaluateRow(SelectPrediction(preds, prediction_id),
                preds, results, clk, prediction_id, actual_numbers)

\* get_unevaluated_predictions without WHERE evaluated = 0
get_unevaluated_predictions_NoWhere(preds) ==
    LET rows == [k \in 1..Len(preds) |->
                    [prediction_id    |-> preds[k].prediction_id,
                     target_draw_date |-> preds[k].target_draw_date,
                     strategy_name    |-> preds[k].strategy_name,
                     tickets          |-> preds[k].tickets]]
    IN  OrderByAsc(rows, [k \in 1..Len(rows) |-> rows[k].target_draw_date])

\* get_unevaluated_predictions without ORDER BY: the rows in rowid order
get_unevaluated_predictions_NoOrder(preds) ==
    LET idx == SelectIdx(Len(preds), {i \in 1..Len(preds) : ~preds[i].evaluated})
    IN  [k \in 1..Len(idx) |->
            [prediction_id    |-> preds[idx[k]].prediction_id,
             target_draw_date |-> preds[idx[k]].target_draw_date,
             strategy_name    |-> preds[idx[k]].strategy_name,
             tickets          |-> preds[idx[k]].tickets]]

\* SELECT prediction_id, target_draw_date, strategy_name, tickets
\* FROM predictions WHERE evaluated = 0 ORDER BY target_draw_date
get_unevaluated_predictions(preds) ==
    LET idx  == SelectIdx(Len(preds), {i \in 1..Len(preds) : ~preds[i].evaluated})
        rows == [k \in 1..Len(idx) |->
                    [prediction_id    |-> preds[idx[k]].prediction_id,
                     target_draw_date |-> preds[idx[k]].target_draw_date,
                     strategy_name    |-> preds[idx[k]].strategy_name,
                     tickets          |-> preds[idx[k]].tickets]]
    IN  OrderByAsc(rows, [k \in 1..Len(rows) |-> rows[k].target_draw_date])

\* PerformanceRows without "WHERE p.strategy_name = ?": the newest results
\* of all strategies
PerformanceRows_AllStrategies(preds, results, strategy_name, window) ==
    LET joined(i) == \E j \in 1..Len(preds) :
                        /\ preds[j].prediction_id = results[i].prediction_id
                        /\ preds[j].evaluated
        idx  == SelectIdx(Len(results), {i \in 1..Len(results) : joined(i)})
        rows == [k \in 1..Len(idx) |-> results[idx[k]]]
    IN  Limit(OrderByDesc(rows, [k \in 1..Len(rows) |-> rows[k].evaluated_at]), window)

\* PerformanceRows with ORDER BY pr.evaluated_at ascending: the oldest results
PerformanceRows_Oldest(preds, results, strategy_name, window) ==
    LET joined(i) == \E j \in 1..Len(preds) :
                        /\ preds[j].prediction_id = results[i].prediction_id
                        /\ preds[j].strategy_name = strategy_name
                        /\ preds[j].evaluated
        idx  == SelectIdx(Len(results), {i \in 1..Len(results) : joined(i)})
        rows == [k \in 1..Len(idx) |-> results[idx[k]]]
    IN  Limit(OrderByAsc(rows, [k \in 1..Len(rows) |-> rows[k].evaluated_at]), window)

\* the rows of get_strategy_performance's query:
\* prediction_results JOIN predictions ON prediction_id
\* WHERE p.strategy_name = ? AND p.evaluated = 1
\* ORDER BY pr.evaluated_at DESC LIMIT ?
PerformanceRows(preds, results, strategy_name, window) ==
    LET joined(i) == \E j \in 1..Len(preds) :
                        /\ preds[j].prediction_id = results[i].prediction_id
                        /\ preds[j].strategy_name = strategy_name
                        /\ preds[j].evaluated
        idx  == SelectIdx(Len(results), {i \in 1..Len(results) : joined(i)})
        rows == [k \in 1..Len(idx) |-> results[idx[k]]]
    IN  Limit(OrderByDesc(rows, [k \in 1..Len(rows) |-> rows[k].evaluated_at]), window)

\* get_strategy_performance dividing the sums by the window asked for
\* instead of the number of rows fetched
get_strategy_performance_DivWindow(preds, results, strategy_name, window) ==
    LET rows == PerformanceRows(preds, results, strategy_name, window)
        n    == Len(rows)
        best_matches  == [k \in 1..n |-> rows[k].best_match]
        total_matches == [k \in 1..n |-> rows[k].total_matches]
        prize_values  == [k \in 1..n |-> rows[k].prize_value]
    IN  IF rows = <<>> THEN None
        ELSE [n_predictions     |-> n,
              avg_best_match    |-> [num |-> SumSeq(best_matches), den |-> window],
              avg_total_matches |-> [num |-> SumSeq(total_matches), den |-> window],
              avg_prize_value   |-> [num |-> SumSeq(prize_values), den |-> window],
              hit_rate_3plus    |->
                  [num |-> Cardinality({k \in 1..n : rows[k].best_match >= 3}),
                   den |-> n],
              best_ever         |-> MaxSeq(best_matches),
              total_prize_won   |-> SumSeq(prize_values)]

\* get_strategy_performance counting a hit from 4 matches on ("r[0] > 3")
get_strategy_performance_HitAbove3(preds, results, strategy_name, window) ==
    LET rows == PerformanceRows(preds, results, strategy_name, window)
        n    == Len(rows)
        best_matches  == [k \in 1..n |-> rows[k].best_match]
        total_matches == [k \in 1..n |-> rows[k].total_matches]
        prize_values  == [k \in 1..n |-> rows[k].prize_value]
    IN  IF rows = <<>> THEN None
        ELSE [n_predictions     |-> n,
              avg_best_match    |-> [num |-> SumSeq(best_matches), den |-> n],
              avg_total_matches |-> [num |-> SumSeq(total_matches), den |-> n],
              avg_prize_value   |-> [num |-> SumSeq(prize_values), den |-> n],
              hit_rate_3plus    |->
                  [num |-> Cardinality({k \in 1..n : rows[k].best_match > 3}),
                   den |-> n],
              best_ever         |-> MaxSeq(best_matches),
              total_prize_won   |-> SumSeq(prize_values)]

\* get_strategy_performance; a quotient a / b is the pair [num |-> a, den |-> b]
get_strategy_performance(preds, results, strategy_name, window) ==
    LET rows == PerformanceRows(preds, results, strategy_name, window)
        n    == Len(rows)
        best_matches  == [k \in 1..n |-> rows[k].best_match]
        total_matches == [k \in 1..n |-> rows[k].total_matches]
        prize_values  == [k \in 1..n |-> rows[k].prize_value]
    IN  IF rows = <<>> THEN None
        ELSE [n_predictions     |-> n,
              avg_best_match    |-> [num |-> SumSeq(best_matches), den |-> n],
              avg_total_matches |-> [num |-> SumSeq(total_matches), den |-> n],
              avg_prize_value   |-> [num |-> SumSeq(prize_values), den |-> n],
              hit_rate_3plus    |->
                  [num |-> Cardinality({k \in 1..n : rows[k].best_match >= 3}),
                   den |-> n],
              best_ever         |-> MaxSeq(best_matches),
              total_prize_won   |-> SumSeq(prize_values)]

\* df_draws[df_draws['draw_date'] == target_date]; draw_date is the primary key
FindDraw(df, target_date) ==
    IF target_date \in DOMAIN df THEN df[target_date] ELSE NoDraw

\* [int(draw.iloc[0][f'n{i}']) for i in range(1, 8)]
ActualNumbers(draw) == [i \in 1..7 |-> draw[i]]

\* EvaluateLoop with "break" where the draw is missing: the loop ends at the
\* first pending prediction without a draw
RECURSIVE EvaluateLoop_Break(_, _, _, _, _, _, _)
EvaluateLoop_Break(pend, i, df, preds, results, clk, evaluated_count) ==
    IF i > Len(pend)
    THEN [status |-> "ok", value |-> evaluated_count,
          predictions |-> preds, prediction_results |-> results, clock |-> clk]
    ELSE LET draw == FindDraw(df, pend[i].target_draw_date)
         IN  IF draw = NoDraw
             THEN [status |-> "ok", value |-> evaluated_count,
                   predictions |-> preds, prediction_results |-> results,
                   clock |-> clk]
             ELSE LET e == evaluate_prediction(preds, results, clk,
                                               pend[i].prediction_id, ActualNumbers(draw))
                  IN  IF e.status # "ok" THEN e
                      ELSE EvaluateLoop_Break(pend, i + 1, df, e.predictions,
                                              e.prediction_results, e.clock,
                                              evaluated_count + 1)

\* the loop of auto_evaluate_pending from pending[i] on; an exception of
\* evaluate_prediction ends the loop and the call
RECURSIVE EvaluateLoop(_, _, _, _, _, _, _)
EvaluateLoop(pend, i, df, preds, results, clk, evaluated_count) ==
    IF i > Len(pend)
    THEN [status |-> "ok", value |-> evaluated_count,
          predictions |-> preds, prediction_results |-> results, clock |-> clk]
    ELSE LET draw == FindDraw(df, pend[i].target_draw_date)
         IN  IF draw = NoDraw
             THEN EvaluateLoop(pend, i + 1, df, preds, results, clk, evaluated_count)
             ELSE LET e == evaluate_prediction(preds, results, clk,
                                               pend[i].prediction_id, ActualNumbers(draw))
                  IN  IF e.status # "ok" THEN e
                      ELSE EvaluateLoop(pend, i + 1, df, e.predictions,
                                        e.prediction_results, e.clock,
                                        evaluated_count + 1)

auto_evaluate_pending(preds, results, clk, drawTable) ==
    LET pend == get_unevaluated_predictions(preds)
    IN  IF pend = <<>>
        THEN [status |-> "ok", value |-> 0,
              predictions |-> preds, prediction_results |-> results, clock |-> clk]
        ELSE EvaluateLoop(pend, 1, drawTable, preds, results, clk, 0)

---------------------------------------------------------------------------
(* AdaptiveLearner *)

\* weights and thresholds, in hundredths
DefaultFrequencyRatio == 70
DefaultRandomRatio == 30
HitRateHigh == 5
HitRateLow == 3
WeightStep == 5
FrequencyMax == 80
FrequencyMin == 60
One == 100
\* the guard of update_weights written "< 4"
MinPredictions_Four == 5 - 1

\* update_weights needs this many results in the window
MinPredictions == 5

\* values np.random.beta may return, in hundredths
BetaSamples == {10, 90}

WeightRow(weights, clk, strategy, wtype, value, score, n_obs) ==
    [weight_id         |-> NextRowId(weights),
     updated_at        |-> Now(clk),
     strategy_name     |-> strategy,
     weight_type       |-> wtype,
     weight_value      |-> value,
     performance_score |-> score,
     n_observations    |-> n_obs]

\* _initialize_weights without the "if count == 0": every construction seeds
initialize_weights_Always(weights, clk) ==
    LET w1 == Append(weights,
                 WeightRow(weights, clk, "hybrid_v1", "frequency_ratio",
                           DefaultFrequencyRatio, [num |-> 0, den |-> 1], 0))
        w2 == Append(w1,
                 WeightRow(w1, clk + 1, "hybrid_v1", "random_ratio",
                           DefaultRandomRatio, [num |-> 0, den |-> 1], 0))
    IN  [adaptive_weights |-> w2, clock |-> clk + 2]

\* _initialize_weights: seeds the default pair when adaptive_weights is empty
initialize_weights(weights, clk) ==
    IF Len(weights) = 0
    THEN LET w1 == Append(weights,
                     WeightRow(weights, clk, "hybrid_v1", "frequency_ratio",
                               DefaultFrequencyRatio, [num |-> 0, den |-> 1], 0))
             w2 == Append(w1,
                     WeightRow(w1, clk + 1, "hybrid_v1", "random_ratio",
                               DefaultRandomRatio, [num |-> 0, den |-> 1], 0))
         IN  [adaptive_weights |-> w2, clock |-> clk + 2]
    ELSE [adaptive_weights |-> weights, clock |-> clk]

\* the rows get_current_weights iterates over:
\* SELECT ... FROM adaptive_weights WHERE strategy_name = ? ORDER BY updated_at DESC
CurrentWeightRows(weights, strategy_name) ==
    LET idx  == SelectIdx(Len(weights),
                    {i \in 1..Len(weights) : weights[i].strategy_name = strategy_name})
        rows == [k \in 1..Len(idx) |-> weights[idx[k]]]
    IN  OrderByDesc(rows, [k \in 1..Len(rows) |-> rows[k].updated_at])

\* for row in cur.fetchall(): weights[row[0]] = {...}: every row assigns its
\* weight_type's entry, so an entry ends as the last row of its type
DictOfRows(rows) ==
    [t \in {rows[k].weight_type : k \in 1..Len(rows)} |->
        LET last == CHOOSE k \in 1..Len(rows) :
                       /\ rows[k].weight_type = t
                       /\ \A j \in 1..Len(rows) : rows[j].weight_type = t => j <= k
        IN  [value       |-> rows[last].weight_value,
             performance |-> rows[last].performance_score,
             n_obs       |-> rows[last].n_observations]]

get_current_weights(weights, strategy_name) ==
    DictOfRows(CurrentWeightRows(weights, strategy_name))

Min(a, b) == IF a <= b THEN a ELSE b
Max(a, b) == IF a >= b THEN a ELSE b

\* the adaptive adjustment of update_weights; success_rate is [num, den]
NewFrequencyWeight(current_value, success_rate) ==
    IF success_rate.num * One > HitRateHigh * success_rate.den
    THEN Min(FrequencyMax, current_value + WeightStep)
    ELSE IF success_rate.num * One < HitRateLow * success_rate.den
         THEN Max(FrequencyMin, current_value - WeightStep)
         ELSE current_value

\* the random weight left at its default instead of the complement
NewRandomWeight_Default(new_freq_weight) == DefaultRandomRatio

\* new_random_weight = 1.0 - new_freq_weight
NewRandomWeight(new_freq_weight) == One - new_freq_weight

\* AppendWeights as an UPDATE: the strategy's rows are overwritten in place
AppendWeights_InPlace(weights, clk, strategy_name, new_freq_weight, new_random_weight, success_rate, n_predictions) ==
    [adaptive_weights |->
        [i \in 1..Len(weights) |->
            IF weights[i].strategy_name = strategy_name
            THEN [weights[i] EXCEPT
                     !.updated_at = Now(clk),
                     !.weight_value = IF weights[i].weight_type = "frequency_ratio"
                                      THEN new_freq_weight ELSE new_random_weight,
                     !.performance_score = success_rate,
                     !.n_observations = n_predictions]
            ELSE weights[i]],
     clock |-> clk + 1]

\* the two INSERT INTO adaptive_weights of update_weights and its commit
AppendWeights(weights, clk, strategy_name, new_freq_weight, new_random_weight, success_rate, n_predictions) ==
    LET w1 == Append(weights,
                 WeightRow(weights, clk, strategy_name, "frequency_ratio",
                           new_freq_weight, success_rate, n_predictions))
        w2 == Append(w1,
                 WeightRow(w1, clk + 1, strategy_name, "random_ratio",
                           new_random_weight, success_rate, n_predictions))
    IN  [adaptive_weights |-> w2, clock |-> clk + 2]

\* update_weights that steps by the Beta sample: up when freq_performance is
\* above 0.5, down otherwise
update_weights_BySample(preds, results, weights, clk, strategy_name, window, freq_performance) ==
    LET perf == get_strategy_performance(preds, results, strategy_name, window)
    IN  IF perf = None \/ perf.n_predictions < MinPredictions
        THEN [status |-> "ok", value |-> None,
              adaptive_weights |-> weights, clock |-> clk]
        ELSE LET current      == get_current_weights(weights, strategy_name)
                 success_rate == perf.hit_rate_3plus
             IN  IF "frequency_ratio" \notin DOMAIN current
                 THEN [status |-> "KeyError", value |-> [error |-> "frequency_ratio"],
                       adaptive_weights |-> weights, clock |-> clk]
                 ELSE LET new_freq_weight ==
                              IF 2 * freq_performance > One
                              THEN Min(FrequencyMax,
                                       current["frequency_ratio"].value + WeightStep)
                              ELSE Max(FrequencyMin,
                                       current["frequency_ratio"].value - WeightStep)
                          new_random_weight == NewRandomWeight(new_freq_weight)
                          a == AppendWeights(weights, clk, strategy_name,
                                             new_freq_weight, new_random_weight,
                                             success_rate, perf.n_predictions)
                      IN  [status |-> "ok",
                           value  |-> [frequency_ratio   |-> new_freq_weight,
                                       random_ratio      |-> new_random_weight,
                                       performance_score |-> success_rate,
                                       n_observations    |-> perf.n_predictions],
                           adaptive_weights |-> a.adaptive_weights,
                           clock            |-> a.clock]

\* update_weights that writes no snapshot when the weight stays as it is
update_weights_SkipUnchanged(preds, results, weights, clk, strategy_name, window, freq_performance) ==
    LET perf == get_strategy_performance(preds, results, strategy_name, window)
    IN  IF perf = None \/ perf.n_predictions < MinPredictions
        THEN [status |-> "ok", value |-> None,
              adaptive_weights |-> weights, clock |-> clk]
        ELSE LET current      == get_current_weights(weights, strategy_name)
                 success_rate == perf.hit_rate_3plus
             IN  IF "frequency_ratio" \notin DOMAIN current
                 THEN [status |-> "KeyError", value |-> [error |-> "frequency_ratio"],
                       adaptive_weights |-> weights, clock |-> clk]
                 ELSE LET new_freq_weight ==
                              NewFrequencyWeight(current["frequency_ratio"].value,
                                                 success_rate)
                          new_random_weight == NewRandomWeight(new_freq_weight)
                          a == IF new_freq_weight = current["frequency_ratio"].value
                               THEN [adaptive_weights |-> weights, clock |-> clk]
                               ELSE AppendWeights(weights, clk, strategy_name,
                                                  new_freq_weight, new_random_weight,
                                                  success_rate, perf.n_predictions)
                      IN  [status |-> "ok",
                           value  |-> [frequency_ratio   |-> new_freq_weight,
                                       random_ratio      |-> new_random_weight,
                                       performance_score |-> success_rate,
                                       n_observations    |-> perf.n_predictions],
                           adaptive_weights |-> a.adaptive_weights,
                           clock            |-> a.clock]

\* update_weights; freq_performance is the value np.random.beta returned
update_weights(preds, results, weights, clk, strategy_name, window, freq_performance) ==
    LET perf == get_strategy_performance(preds, results, strategy_name, window)
    IN  IF perf = None \/ perf.n_predictions < MinPredictions
        THEN [status |-> "ok", value |-> None,
              adaptive_weights |-> weights, clock |-> clk]
        ELSE LET current      == get_current_weights(weights, strategy_name)
                 success_rate == perf.hit_rate_3plus
                 n_success    == success_rate.num
                 n_failure    == perf.n_predictions - n_success
                 alpha        == 1 + n_success
                 beta         == 1 + n_failure
             IN  IF "frequency_ratio" \notin DOMAIN current
                 THEN \* current['frequency_ratio'] raises KeyError
                      [status |-> "KeyError", value |-> [error |-> "frequency_ratio"],
                       adaptive_weights |-> weights, clock |-> clk]
                 ELSE LET new_freq_weight ==
                              NewFrequencyWeight(current["frequency_ratio"].value,
                                                 success_rate)
                          new_random_weight == NewRandomWeight(new_freq_weight)
                          a == AppendWeights(weights, clk, strategy_name,
                                             new_freq_weight, new_random_weight,
                                             success_rate, perf.n_predictions)
                      IN  [status |-> "ok",
                           value  |-> [frequency_ratio   |-> new_freq_weight,
                                       random_ratio      |-> new_random_weight,
                                       performance_score |-> success_rate,
                                       n_observations    |-> perf.n_predictions],
                           adaptive_weights |-> a.adaptive_weights,
                           clock            |-> a.clock]

\* get_learning_history: the strategy's rows ORDER BY updated_at
get_learning_history(weights, strategy_name) ==
    LET idx  == SelectIdx(Len(weights),
                    {i \in 1..Len(weights) : weights[i].strategy_name = strategy_name})
        rows == [k \in 1..Len(idx) |->
                    [timestamp   |-> weights[idx[k]].updated_at,
                     weight_type |-> weights[idx[k]].weight_type,
                     value       |-> weights[idx[k]].weight_value,
                     performance |-> weights[idx[k]].performance_score,
                     n_obs       |-> weights[idx[k]].n_observations]]
    IN  OrderByAsc(rows, [k \in 1..Len(rows) |-> rows[k].timestamp])

-------------------------------------------------------------------------------------------------------------------------------------------------
(* The ledger an earlier session left: n predictions of one strategy for   *)
(* the draw of date 0, each saved and then evaluated against that draw.    *)

RECURSIVE Ledger(_, _, _)
Ledger(n, strategy_name, numbers) ==
    IF n = 0
    THEN [predictions |-> <<>>, prediction_results |-> <<>>, clock |-> 1]
    ELSE LET prev == Ledger(n - 1, strategy_name, numbers)
             s == save_prediction(prev.predictions, prev.clock, 0,
                                  strategy_name, <<TicketA>>)
             e == evaluate_prediction(s.predictions, prev.prediction_results,
                                      s.clock, s.value, numbers)
         IN  [predictions        |-> e.predictions,
              prediction_results |-> e.prediction_results,
              clock              |-> e.clock]

\* the earlier sessions a run may follow: none, or HistoryLen predictions
Histories ==
    {[n |-> 0, strategy_name |-> "hybrid_v1", numbers |-> DrawHit],
     [n |-> HistoryLen, strategy_name |-> "hybrid_v1", numbers |-> DrawHit],
     [n |-> HistoryLen, strategy_name |-> "hybrid_v1", numbers |-> DrawMiss],
     [n |-> HistoryLen, strategy_name |-> "other", numbers |-> DrawHit]}

Drivers == {1, 2}

\* _ensure_tracking_tables creates the tables empty on a fresh database;
\* a database that earlier sessions used holds their ledger
Init ==
    \E h \in Histories :
        LET n == h.n
            numbers == h.numbers
            l == Ledger(n, h.strategy_name, numbers)
        IN  /\ predictions = l.predictions
            /\ prediction_results = l.prediction_results
            /\ clock = l.clock
            /\ draws = [d \in Dates |-> IF d = 0 /\ n > 0 THEN numbers ELSE NoDraw]
            /\ adaptive_weights = <<>>
            /\ learner = FALSE
            /\ call = [op |-> "init"]
            /\ ret = [status |-> "ok", value |-> None]
            /\ pc = [p \in Drivers |-> "idle"]
            /\ pending = [p \in Drivers |-> <<>>]
            /\ df_draws = [p \in Drivers |-> <<>>]
            /\ pos = [p \in Drivers |-> 0]
            /\ row = [p \in Drivers |-> <<>>]

\* the predictions of the earlier session, and the rows written in this run
HistoryCount == Cardinality({i \in 1..Len(predictions) :
                               predictions[i].target_draw_date = 0})
NewPredictions == Len(predictions) - HistoryCount
NewResults == Len(prediction_results) - HistoryCount

---------------------------------------------------------------------------
(* The operations, each called by one caller and run to completion *)

\* scraper: insert_draw; the primary key draw_date rejects a second draw of a date
InsertDraw(d) ==
    /\ draws' = IF draws[d] = NoDraw THEN [draws EXCEPT ![d] = DrawOf(d)] ELSE draws
    /\ call' = [op |-> "insert_draw", draw_date |-> d]
    /\ ret' = [status |-> "ok", value |-> None]
    /\ UNCHANGED <<store, clock, learner, procs>>

SavePrediction(d, s, t) ==
    /\ NewPredictions < MaxNewPredictions
    /\ \E r \in {save_prediction(predictions, clock, d, s, t)} :
           /\ predictions' = r.predictions
           /\ clock' = r.clock
           /\ ret' = [status |-> "ok", value |-> r.value]
    /\ call' = [op |-> "save_prediction", target_draw_date |-> d,
                strategy_name |-> s, tickets |-> t]
    /\ UNCHANGED <<prediction_results, adaptive_weights, draws, learner, procs>>

EvaluatePrediction(id, numbers) ==
    /\ NewResults < MaxNewResults
    /\ \E r \in {evaluate_prediction(predictions, prediction_results, clock, id, numbers)} :
           /\ predictions' = r.predictions
           /\ prediction_results' = r.prediction_results
           /\ clock' = r.clock
           /\ ret' = [status |-> r.status, value |-> r.value]
    /\ call' = [op |-> "evaluate_prediction", prediction_id |-> id,
                actual_numbers |-> numbers]
    /\ UNCHANGED <<adaptive_weights, draws, learner, procs>>

AutoEvaluatePending ==
    /\ \E r \in {auto_evaluate_pending(predictions, prediction_results, clock, draws)} :
           /\ Len(r.prediction_results) - HistoryCount <= MaxNewResults
           /\ predictions' = r.predictions
           /\ prediction_results' = r.prediction_results
           /\ clock' = r.clock
           /\ ret' = [status |-> r.status, value |-> r.value]
    /\ call' = [op |-> "auto_evaluate_pending",
                \* called again right after a call of auto_evaluate_pending
                repeated |-> (call.op = "auto_evaluate_pending")]
    /\ UNCHANGED <<adaptive_weights, draws, learner, procs>>

\* AdaptiveLearner(): __init__ runs _initialize_weights
NewLearner ==
    /\ \E r \in {initialize_weights(adaptive_weights, clock)} :
           /\ adaptive_weights' = r.adaptive_weights
           /\ clock' = r.clock
    /\ learner' = TRUE
    /\ call' = [op |-> "AdaptiveLearner"]
    /\ ret' = [status |-> "ok", value |-> None]
    /\ UNCHANGED <<predictions, prediction_results, draws, procs>>

UpdateWeights(s, w, sample) ==
    /\ learner
    /\ Len(adaptive_weights) <= 2 * MaxUpdates
    /\ \E r \in {update_weights(predictions, prediction_results, adaptive_weights,
                               clock, s, w, sample)} :
           /\ adaptive_weights' = r.adaptive_weights
           /\ clock' = r.clock
           /\ ret' = [status |-> r.status, value |-> r.value]
    /\ call' = [op |-> "update_weights", strategy_name |-> s, window |-> w]
    /\ UNCHANGED <<predictions, prediction_results, draws, learner, procs>>

\* a get_current_weights that seeds the defaults of a strategy it finds
\* no row of
GetCurrentWeights_Seeding(s) ==
    /\ learner
    /\ \E a \in {AppendWeights(adaptive_weights, clock, s, DefaultFrequencyRatio,
                              DefaultRandomRatio, [num |-> 0, den |-> 1], 0)} :
           IF CurrentWeightRows(adaptive_weights, s) = <<>>
           THEN /\ adaptive_weights' = a.adaptive_weights
                /\ clock' = a.clock
                /\ ret' = [status |-> "ok",
                           value |-> get_current_weights(a.adaptive_weights, s)]
           ELSE /\ UNCHANGED <<adaptive_weights, clock>>
                /\ ret' = [status |-> "ok",
                           value |-> get_current_weights(adaptive_weights, s)]
    /\ call' = [op |-> "get_current_weights", strategy_name |-> s]
    /\ UNCHANGED <<predictions, prediction_results, draws, learner, procs>>

GetCurrentWeights(s) ==
    /\ learner
    /\ call' = [op |-> "get_current_weights", strategy_name |-> s]
    /\ ret' = [status |-> "ok", value |-> get_current_weights(adaptive_weights, s)]
    /\ UNCHANGED <<store, draws, clock, learner, procs>>

GetStrategyPerformance(s, w) ==
    /\ call' = [op |-> "get_strategy_performance", strategy_name |-> s, window |-> w]
    /\ ret' = [status |-> "ok",
               value |-> get_strategy_performance(predictions, prediction_results, s, w)]
    /\ UNCHANGED <<store, draws, clock, learner, procs>>

GetUnevaluatedPredictions ==
    /\ call' = [op |-> "get_unevaluated_predictions"]
    /\ ret' = [status |-> "ok", value |-> get_unevaluated_predictions(predictions)]
    /\ UNCHANGED <<store, draws, clock, learner, procs>>

GetLearningHistory(s) ==
    /\ learner
    /\ call' = [op |-> "get_learning_history", strategy_name |-> s]
    /\ ret' = [status |-> "ok", value |-> get_learning_history(adaptive_weights, s)]
    /\ UNCHANGED <<store, draws, clock, learner, procs>>

\* the ids evaluate_prediction is called with: the latest prediction's and
\* one that no prediction has
EvaluableIds == {id \in 1..(Len(predictions) + 1) : id >= Len(predictions)}

\* the tracker's operations on the ledger
Next ==
    \/ \E d \in NewDates : InsertDraw(d)
    \/ \E d \in NewDates, p \in Portfolios :
           SavePrediction(d, p.strategy_name, p.tickets)
    \/ \E id \in EvaluableIds, numbers \in DrawNumbers :
           EvaluatePrediction(id, numbers)
    \/ AutoEvaluatePending

Spec == Init /\ [][Next]_vars

\* the learner's operations, over a ledger that grows by one prediction and
\* by the results evaluate_prediction writes (auto_evaluate_pending writes
\* results only by calling evaluate_prediction)
MaxLearnerPredictions == 1

NextLearner ==
    \/ \E d \in NewDates, p \in Portfolios :
           /\ NewPredictions < MaxLearnerPredictions
           /\ SavePrediction(d, p.strategy_name, p.tickets)
    \/ \E id \in EvaluableIds, numbers \in DrawNumbers :
           EvaluatePrediction(id, numbers)
    \/ NewLearner
    \/ \E s \in Strategies, w \in Windows, sample \in BetaSamples :
           UpdateWeights(s, w, sample)

SpecLearner == Init /\ [][NextLearner]_vars

---------------------------------------------------------------------------
(* auto_evaluate_pending run by concurrent drivers (two sessions of the    *)
(* web app on one database).  A driver's steps are its reads of and writes *)
(* to the database: each SELECT is one step, and the INSERT and UPDATE of  *)
(* evaluate_prediction, committed together, are one step.                  *)

Idle(p) ==
    /\ pc' = [pc EXCEPT ![p] = "idle"]
    /\ pending' = [pending EXCEPT ![p] = <<>>]
    /\ df_draws' = [df_draws EXCEPT ![p] = <<>>]
    /\ pos' = [pos EXCEPT ![p] = 0]
    /\ row' = [row EXCEPT ![p] = <<>>]

\* pending = self.get_unevaluated_predictions(); if not pending: return
DriverBegin(p) ==
    /\ pc[p] = "idle"
    /\ \E pend \in {get_unevaluated_predictions(predictions)} :
           /\ pend # <<>>
           /\ pending' = [pending EXCEPT ![p] = pend]
           /\ pc' = [pc EXCEPT ![p] = "load"]
    /\ UNCHANGED <<store, draws, clock, learner, call, ret, df_draws, pos, row>>

\* df_draws = load_draws()
DriverLoadDraws(p) ==
    /\ pc[p] = "load"
    /\ df_draws' = [df_draws EXCEPT ![p] = draws]
    /\ pos' = [pos EXCEPT ![p] = 1]
    /\ pc' = [pc EXCEPT ![p] = "loop"]
    /\ UNCHANGED <<store, draws, clock, learner, call, ret, pending, row>>

\* one turn of "for pred in pending" up to the SELECT of evaluate_prediction
DriverStep(p) ==
    /\ pc[p] = "loop"
    /\ IF pos[p] > Len(pending[p])
       THEN Idle(p)
       ELSE IF FindDraw(df_draws[p], pending[p][pos[p]].target_draw_date) = NoDraw
            THEN /\ pos' = [pos EXCEPT ![p] = pos[p] + 1]
                 /\ UNCHANGED <<pc, pending, df_draws, row>>
            ELSE /\ row' = [row EXCEPT ![p] =
                        SelectPrediction(predictions, pending[p][pos[p]].prediction_id)]
                 /\ pc' = [pc EXCEPT ![p] = "write"]
                 /\ UNCHANGED <<pending, df_draws, pos>>
    /\ UNCHANGED <<store, draws, clock, learner, call, ret>>

\* the rest of evaluate_prediction: the scores, the INSERT, the UPDATE, the commit
DriverWrite(p) ==
    /\ pc[p] = "write"
    /\ \E e \in {EvaluateRow(row[p], predictions, prediction_results, clock,
                     pending[p][pos[p]].prediction_id,
                     ActualNumbers(FindDraw(df_draws[p],
                                            pending[p][pos[p]].target_draw_date)))} :
           /\ predictions' = e.predictions
           /\ prediction_results' = e.prediction_results
           /\ clock' = e.clock
           /\ IF e.status = "ok"
              THEN /\ pos' = [pos EXCEPT ![p] = pos[p] + 1]
                   /\ pc' = [pc EXCEPT ![p] = "loop"]
                   /\ row' = [row EXCEPT ![p] = <<>>]
                   /\ UNCHANGED <<pending, df_draws>>
              ELSE Idle(p)
    /\ UNCHANGED <<adaptive_weights, draws, learner, call, ret>>

NextConcurrent ==
    \/ \E d \in NewDates : InsertDraw(d)
    \/ \E d \in NewDates, p \in Portfolios :
           SavePrediction(d, p.strategy_name, p.tickets)
    \/ \E p \in Drivers : DriverBegin(p)
    \/ \E p \in Drivers : DriverLoadDraws(p)
    \/ \E p \in Drivers : DriverStep(p)
    \/ \E p \in Drivers : DriverWrite(p)

SpecConcurrent == Init /\ [][NextConcurrent]_vars

---------------------------------------------------------------------------
(* save_prediction and evaluate_prediction take their arguments as they    *)
(* come: called here with every ticket list and every draw a caller may    *)
(* pass.                                                                   *)

\* a ticket that is not 7 distinct numbers of 1..50
TicketBad == <<1, 1, 2, 51>>
\* the ticket lists save_prediction is called with, well-formed or not
AnyPortfolios ==
    Portfolios \cup {[strategy_name |-> "hybrid_v1", tickets |-> <<TicketBad>>]}

\* winning numbers that share 5, 6 and 7 numbers with TicketA
Draw5 == <<1, 2, 3, 4, 5, 20, 21>>
Draw6 == <<1, 2, 3, 4, 5, 6, 20>>
Draw7 == <<1, 2, 3, 4, 5, 6, 7>>
AnyDrawNumbers == DrawNumbers \cup {Draw5, Draw6, Draw7}

NextScoring ==
    \/ \E d \in NewDates, p \in AnyPortfolios :
           SavePrediction(d, p.strategy_name, p.tickets)
    \/ \E id \in EvaluableIds, numbers \in AnyDrawNumbers :
           EvaluatePrediction(id, numbers)

SpecScoring == Init /\ [][NextScoring]_vars

---------------------------------------------------------------------------
(* The tracker's queries, between the writes that change their answers *)

\* the window sizes get_strategy_performance is called with
QueryWindows == {0} \cup Windows

NextQueries ==
    \/ \E d \in NewDates, p \in Portfolios :
           SavePrediction(d, p.strategy_name, p.tickets)
    \/ \E id \in EvaluableIds, numbers \in DrawNumbers :
           EvaluatePrediction(id, numbers)
    \/ \E s \in Strategies, w \in QueryWindows : GetStrategyPerformance(s, w)
    \/ GetUnevaluatedPredictions

SpecQueries == Init /\ [][NextQueries]_vars

---------------------------------------------------------------------------
(* Every operation that writes to the database, in one run *)

NextLedger ==
    \/ NextLearner
    \/ \E d \in NewDates : InsertDraw(d)
    \/ AutoEvaluatePending

SpecLedger == Init /\ [][NextLedger]_vars

---------------------------------------------------------------------------
(* The match count of evaluate_prediction, applied to pairs of tickets *)

\* the tickets are runs of 7 numbers starting after 0..MaxShift, two of them
\* also in descending order, and the run that ends at 50
MaxShift == 7
MatchTickets ==
    {[i \in 1..7 |-> k + i] : k \in 0..MaxShift}
        \cup {[i \in 1..7 |-> k + 8 - i] : k \in {0, 3}}
        \cup {[i \in 1..7 |-> 43 + i]}

\* one turn of "for ticket in tickets" for the ticket and the numbers given
MatchCount(ticket, actual_numbers) ==
    /\ call' = [op |-> "match_count", ticket |-> ticket,
                actual_numbers |-> actual_numbers]
    /\ ret' = [status |-> "ok",
               value |-> TicketMatches(<<ticket>>, actual_numbers)[1]]
    /\ UNCHANGED <<store, draws, clock, learner, procs>>

NextMatch == \E t1 \in MatchTickets, t2 \in MatchTickets : MatchCount(t1, t2)

SpecMatch == Init /\ [][NextMatch]_vars

---------------------------------------------------------------------------
(* The learner over a ledger that fills its window: LongHistoryLen resolved *)
(* predictions of hybrid_v1, the last of them the only one with 3 matches.  *)

LongHistoryLen == 20

\* Ledger(n, strategy_name, .) row by row, the i-th prediction evaluated
\* against numbers[i]: ids and result ids are 1..n, the clock is read at i
\* for the i-th result
LedgerRows(n, strategy_name, numbers) ==
    [predictions |->
        [i \in 1..n |->
            [prediction_id    |-> i,
             target_draw_date |-> 0,
             strategy_name    |-> strategy_name,
             portfolio_size   |-> Len(<<TicketA>>),
             tickets          |-> <<TicketA>>,
             evaluated        |-> TRUE]],
     prediction_results |->
        [i \in 1..n |->
            LET ticket_matches == TicketMatches(<<TicketA>>, numbers[i])
            IN  [result_id      |-> i,
                 prediction_id  |-> i,
                 actual_numbers |-> numbers[i],
                 evaluated_at   |-> Now(i),
                 best_match     |-> MaxSeq(ticket_matches),
                 total_matches  |-> SumSeq(ticket_matches),
                 prize_value    |-> calculate_prize_value(ticket_matches),
                 ticket_matches |-> ticket_matches]],
     clock |-> n + 1]

LongLedger ==
    LedgerRows(LongHistoryLen, "hybrid_v1",
               [i \in 1..LongHistoryLen |->
                   IF i = LongHistoryLen THEN DrawHit ELSE DrawMiss])

InitLong ==
    /\ predictions = LongLedger.predictions
    /\ prediction_results = LongLedger.prediction_results
    /\ clock = LongLedger.clock
    /\ draws = [d \in Dates |-> IF d = 0 THEN DrawMiss ELSE NoDraw]
    /\ adaptive_weights = <<>>
    /\ learner = FALSE
    /\ call = [op |-> "init"]
    /\ ret = [status |-> "ok", value |-> None]
    /\ pc = [p \in Drivers |-> "idle"]
    /\ pending = [p \in Drivers |-> <<>>]
    /\ df_draws = [p \in Drivers |-> <<>>]
    /\ pos = [p \in Drivers |-> 0]
    /\ row = [p \in Drivers |-> <<>>]

SpecLearnerLong == (Init \/ InitLong) /\ [][NextLearner]_vars

---------------------------------------------------------------------------
(* The GENERATE NUMBERS handler of the web app: one cycle per click.  The   *)
(* handler runs its calls one after the other; the call that returned last *)
(* (call.op) is its position, and a call that raises ends the cycle in the  *)
(* handler's except clause.                                                *)

\* the window the handler reads the displayed performance with
DisplayWindow == 50
\* the window the handler updates the weights with
UpdateWindow == 20

\* the portfolios generate_adaptive_portfolio hands to save_prediction
CyclePortfolios == {<<TicketA>>, <<TicketB, TicketA>>}

\* scrape_data (the scraper's main): insert_draw for every date fetch_draw
\* returned a draw for; a date that has a draw keeps it
ScrapeData(fetched) ==
    /\ draws' = [d \in Dates |->
                   IF d \in fetched /\ draws[d] = NoDraw THEN DrawOf(d) ELSE draws[d]]
    /\ call' = [op |-> "scrape_data", fetched |-> fetched]
    /\ ret' = [status |-> "ok", value |-> None]
    /\ UNCHANGED <<store, clock, learner, procs>>

\* no cycle is running: nothing was clicked yet, the last cycle saved its
\* prediction, or its last call raised
CycleOver ==
    \/ call.op \in {"init", "save_prediction"}
    \/ ret.status # "ok"

\* step 1, and a click after build_feature_matrix or
\* generate_adaptive_portfolio raised in the cycle before
CycleScrape ==
    /\ CycleOver \/ call.op = "get_strategy_performance"
    /\ \E fetched \in SUBSET NewDates : ScrapeData(fetched)

\* step 2: tracker.auto_evaluate_pending()
CycleReconcile ==
    /\ call.op = "scrape_data"
    /\ AutoEvaluatePending

\* step 3: learner = AdaptiveLearner()
CycleLearner ==
    /\ call.op = "auto_evaluate_pending"
    /\ ret.status = "ok"
    /\ NewLearner

\* step 3: learner.update_weights(strategy_name='hybrid_v1', window=20)
CycleUpdate ==
    /\ call.op = "AdaptiveLearner"
    /\ \E sample \in BetaSamples : UpdateWeights("hybrid_v1", UpdateWindow, sample)

\* step 3: tracker.get_strategy_performance('hybrid_v1', window=50)
CyclePerformance ==
    /\ call.op = "update_weights"
    /\ ret.status = "ok"
    /\ GetStrategyPerformance("hybrid_v1", DisplayWindow)

\* steps 4 and 5: the portfolio is generated and saved for the next draw
CycleSave ==
    /\ call.op = "get_strategy_performance"
    /\ \E d \in NewDates, t \in CyclePortfolios : SavePrediction(d, "hybrid_v1", t)

\* the handler with the weight update moved before the reconciliation
NextCycle_UpdateFirst ==
    \/ CycleOver /\ \E fetched \in SUBSET NewDates : ScrapeData(fetched)
    \/ call.op = "scrape_data" /\ NewLearner
    \/ CycleUpdate
    \/ CyclePerformance
    \/ call.op = "get_strategy_performance" /\ AutoEvaluatePending
    \/ /\ call.op = "auto_evaluate_pending"
       /\ ret.status = "ok"
       /\ \E d \in NewDates, t \in CyclePortfolios : SavePrediction(d, "hybrid_v1", t)

NextCycle ==
    \/ CycleScrape
    \/ CycleReconcile
    \/ CycleLearner
    \/ CycleUpdate
    \/ CyclePerformance
    \/ CycleSave

SpecCycle == Init /\ [][NextCycle]_vars

---------------------------------------------------------------------------
(* The learner's operations together with the four read-only queries *)

NextFrames ==
    \/ NextLearner
    \/ \E s \in Strategies, w \in Windows : GetStrategyPerformance(s, w)
    \/ GetUnevaluatedPredictions
    \/ \E s \in Strategies : GetCurrentWeights(s)
    \/ \E s \in Strategies : GetLearningHistory(s)

SpecFrames == Init /\ [][NextFrames]_vars

---------------------------------------------------------------------------
(* Properties *)

\* the rows of prediction_results that refer to a prediction
ResultsOf(results, prediction_id) ==
    {i \in 1..Len(results) : results[i].prediction_id = prediction_id}

IsResolved(prediction_id) == ResultsOf(prediction_results, prediction_id) # {}

\* C1: evaluate succeeds at most once per prediction id: a call of
\* evaluate_prediction for a prediction that already has a Result fails with
\* an AlreadyResolved error and leaves the stored Results as they were.
C1_SecondEvaluateRejected ==
    [][ (call'.op = "evaluate_prediction" /\ IsResolved(call'.prediction_id))
        => /\ ret'.status = "AlreadyResolvedError"
           /\ prediction_results' = prediction_results ]_vars

\* C2: in every reachable state a prediction id has at most one Result, and
\* exactly one when the prediction is resolved.
C2_OneResultPerPrediction ==
    \A i \in 1..Len(predictions) :
        LET n == Cardinality(ResultsOf(prediction_results, predictions[i].prediction_id))
        IN  /\ n <= 1
            /\ predictions[i].evaluated => n = 1

\* C3: however the reads and writes of two concurrent drivers interleave, no
\* two rows of prediction_results refer to the same prediction.
C3_NoDoubleWrite ==
    \A i, j \in 1..Len(prediction_results) :
        i # j => prediction_results[i].prediction_id # prediction_results[j].prediction_id

\* C4: a prediction's evaluated flag is set if and only if a Result exists
\* for it; after an evaluate_prediction call that failed, the prediction it
\* named (if there is one) has neither the flag nor a Result.
C4_FlagIffResult ==
    /\ \A i \in 1..Len(predictions) :
           predictions[i].evaluated <=> IsResolved(predictions[i].prediction_id)
    /\ (call.op = "evaluate_prediction" /\ ret.status # "ok")
       => \A i \in 1..Len(predictions) :
              predictions[i].prediction_id = call.prediction_id
              => ~predictions[i].evaluated /\ ~IsResolved(call.prediction_id)

\* a failed evaluate_prediction of a stored prediction with no tickets, in a
\* ledger that also holds a resolved prediction
C4_Witness ==
    /\ call.op = "evaluate_prediction"
    /\ ret.status = "ValueError"
    /\ \E i \in 1..Len(predictions) :
           /\ predictions[i].prediction_id = call.prediction_id
           /\ predictions[i].tickets = <<>>
    /\ \E i \in 1..Len(predictions) :
           predictions[i].target_draw_date # 0 /\ predictions[i].evaluated

\* the draw of a prediction's target date, NoDraw when the date has none
DrawFor(pred) == FindDraw(draws, pred.target_draw_date)

\* C5: auto_evaluate_pending called again right after itself (no draw was
\* added in between) leaves predictions, results and weight snapshots as the
\* first call left them; and any call only appends Results, each for a
\* prediction that was unresolved and whose target date has a draw.
C5_ReconcileIdempotent ==
    [][ call'.op = "auto_evaluate_pending" =>
          /\ call.op = "auto_evaluate_pending" => store' = store
          /\ Len(prediction_results') >= Len(prediction_results)
          /\ SubSeq(prediction_results', 1, Len(prediction_results)) = prediction_results
          /\ \A k \in (Len(prediction_results) + 1)..Len(prediction_results') :
                \E i \in 1..Len(predictions) :
                    /\ predictions[i].prediction_id = prediction_results'[k].prediction_id
                    /\ ~predictions[i].evaluated
                    /\ DrawFor(predictions[i]) # NoDraw ]_vars

\* the second of two calls in a row has returned, the first having resolved
\* a prediction from its draw while another prediction still waits for one
C5_Witness ==
    /\ call.op = "auto_evaluate_pending"
    /\ call.repeated
    /\ ret.status = "ok"
    /\ \E i \in 1..Len(predictions) :
           /\ predictions[i].target_draw_date # 0
           /\ predictions[i].evaluated
           /\ DrawFor(predictions[i]) # NoDraw
           /\ \E k \in ResultsOf(prediction_results, predictions[i].prediction_id) :
                  prediction_results[k].actual_numbers = ActualNumbers(DrawFor(predictions[i]))
    /\ \E i \in 1..Len(predictions) : ~predictions[i].evaluated

\* C6: when auto_evaluate_pending has finished, every prediction that was
\* unresolved at its start and whose target date has a draw is resolved, with
\* a Result computed from that draw's n1..n7, also when the pending list
\* holds a prediction that cannot be evaluated (stated here only for the
\* predictions that can be evaluated: those with at least one ticket).
C6_PendingWithDrawResolved ==
    [][ call'.op = "auto_evaluate_pending" =>
          \A i \in 1..Len(predictions) :
              ( /\ ~predictions[i].evaluated
                /\ DrawFor(predictions[i]) # NoDraw
                /\ predictions[i].tickets # <<>> )
              => /\ predictions'[i].evaluated
                 /\ \E k \in ResultsOf(prediction_results', predictions[i].prediction_id) :
                        prediction_results'[k].actual_numbers
                            = ActualNumbers(DrawFor(predictions[i])) ]_vars

\* a pending prediction with a draw that raises in evaluate_prediction (it
\* has no ticket) at or before position k of the pending list
Blocked(pend, k) ==
    \E j \in 1..k : DrawFor(pend[j]) # NoDraw /\ pend[j].tickets = <<>>

\* C7: auto_evaluate_pending skips a pending prediction whose target date
\* has no draw: the prediction stays unresolved and gets no Result, the skip
\* raises nothing, and the loop goes on to the pending predictions after it
\* (every pending prediction with a draw is resolved unless the call was
\* ended earlier by evaluate_prediction raising).
C7_NoDrawSkipped ==
    [][ call'.op = "auto_evaluate_pending" =>
          LET pend == get_unevaluated_predictions(predictions)
          IN  /\ \A k \in 1..Len(pend) :
                    DrawFor(pend[k]) = NoDraw =>
                        /\ ResultsOf(prediction_results', pend[k].prediction_id) = {}
                        /\ \A i \in 1..Len(predictions') :
                               predictions'[i].prediction_id = pend[k].prediction_id
                               => ~predictions'[i].evaluated
              /\ \A k \in 1..Len(pend) :
                    (DrawFor(pend[k]) # NoDraw /\ ~Blocked(pend, k)) =>
                        ResultsOf(prediction_results', pend[k].prediction_id) # {}
              /\ (\A k \in 1..Len(pend) : ~Blocked(pend, k)) => ret'.status = "ok" ]_vars

\* auto_evaluate_pending has returned after skipping a prediction without a
\* draw and resolving a prediction of a later date from its draw
C7_Witness ==
    /\ call.op = "auto_evaluate_pending"
    /\ ret.status = "ok"
    /\ ret.value >= 1
    /\ \E i, j \in 1..Len(predictions) :
           /\ ~predictions[i].evaluated
           /\ DrawFor(predictions[i]) = NoDraw
           /\ predictions[i].target_draw_date < predictions[j].target_draw_date
           /\ predictions[j].evaluated
           /\ DrawFor(predictions[j]) # NoDraw
           /\ \E k \in ResultsOf(prediction_results, predictions[j].prediction_id) :
                  /\ prediction_results[k].actual_numbers
                         = ActualNumbers(DrawFor(predictions[j]))
                  /\ k = Len(prediction_results)

WeightTypes == {"frequency_ratio", "random_ratio"}

\* the rows of adaptive_weights of a strategy and a weight type
WeightRowsOf(s, t) ==
    {i \in 1..Len(adaptive_weights) :
        adaptive_weights[i].strategy_name = s /\ adaptive_weights[i].weight_type = t}

\* C8: get_current_weights returns, for each weight name of a strategy, the
\* snapshot with the latest timestamp among the snapshots of that strategy
\* and name: its value, performance score and observation count.
C8_CurrentIsMostRecent ==
    \A s \in Strategies, t \in WeightTypes :
        WeightRowsOf(s, t) # {} =>
            LET cur  == get_current_weights(adaptive_weights, s)
                last == CHOOSE i \in WeightRowsOf(s, t) :
                            \A j \in WeightRowsOf(s, t) :
                                adaptive_weights[j].updated_at
                                    <= adaptive_weights[i].updated_at
            IN  /\ t \in DOMAIN cur
                /\ cur[t] = [value       |-> adaptive_weights[last].weight_value,
                             performance |-> adaptive_weights[last].performance_score,
                             n_obs       |-> adaptive_weights[last].n_observations]

\* C9: update_weights returns None and appends no snapshot whenever
\* get_strategy_performance reports fewer than 5 results in the window
\* (none at all included).
C9_InsufficientDataDeclines ==
    [][ call'.op = "update_weights" =>
          LET perf == get_strategy_performance(predictions, prediction_results,
                                               call'.strategy_name, call'.window)
          IN  (perf = None \/ perf.n_predictions < 5) =>
                  /\ ret'.status = "ok"
                  /\ ret'.value = None
                  /\ adaptive_weights' = adaptive_weights ]_vars

\* update_weights has declined over a window that holds results, fewer than 5
C9_Witness ==
    /\ call.op = "update_weights"
    /\ ret.value = None
    /\ LET perf == get_strategy_performance(predictions, prediction_results,
                                            call.strategy_name, call.window)
       IN  perf # None /\ perf.n_predictions >= 3 /\ perf.n_predictions < 5

\* C10: every snapshot pair of a strategy (the seeded pair and every pair
\* update_weights appended) has frequency_ratio in [0.60, 0.80] and
\* random_ratio = 1 - frequency_ratio, the two summing to 1; so has the pair
\* get_current_weights reports.
C10_WeightsInRangeAndComplementary ==
    /\ \A i \in 1..Len(adaptive_weights) :
           adaptive_weights[i].weight_type = "frequency_ratio" =>
               /\ adaptive_weights[i].weight_value >= FrequencyMin
               /\ adaptive_weights[i].weight_value <= FrequencyMax
               /\ i + 1 <= Len(adaptive_weights)
               /\ adaptive_weights[i + 1].weight_type = "random_ratio"
               /\ adaptive_weights[i + 1].strategy_name = adaptive_weights[i].strategy_name
               /\ adaptive_weights[i + 1].weight_value = One - adaptive_weights[i].weight_value
               /\ adaptive_weights[i].weight_value + adaptive_weights[i + 1].weight_value = One
    /\ \A i \in 1..Len(adaptive_weights) :
           adaptive_weights[i].weight_type = "random_ratio" =>
               i > 1 /\ adaptive_weights[i - 1].weight_type = "frequency_ratio"
    /\ \A s \in Strategies :
           LET cur == get_current_weights(adaptive_weights, s)
           IN  DOMAIN cur # {} =>
                   /\ DOMAIN cur = WeightTypes
                   /\ cur["frequency_ratio"].value >= FrequencyMin
                   /\ cur["frequency_ratio"].value <= FrequencyMax
                   /\ cur["random_ratio"].value = One - cur["frequency_ratio"].value
                   /\ cur["frequency_ratio"].value + cur["random_ratio"].value = One

\* update_weights has appended a pair whose frequency_ratio differs from the
\* seeded one
C10_Witness ==
    /\ call.op = "update_weights"
    /\ ret.status = "ok"
    /\ ret.value # None
    /\ \E i \in 1..Len(adaptive_weights) :
           /\ adaptive_weights[i].weight_type = "frequency_ratio"
           /\ adaptive_weights[i].weight_value # DefaultFrequencyRatio

\* the value of the snapshot with the latest timestamp among a strategy's
\* frequency_ratio snapshots
LatestFrequency(weights, s) ==
    LET rows == {i \in 1..Len(weights) :
                    weights[i].strategy_name = s /\ weights[i].weight_type = "frequency_ratio"}
        last == CHOOSE i \in rows :
                    \A j \in rows : weights[j].updated_at <= weights[i].updated_at
    IN  weights[last].weight_value

\* the step rule as the claims state it, in hundredths: h > 0.05 raises f0 by
\* 0.05 up to 0.80, h < 0.03 lowers it by 0.05 down to 0.60, else f0 stays
SteppedFrequency(f0, h) ==
    IF h.num * 100 > 5 * h.den THEN (IF f0 + 5 < 80 THEN f0 + 5 ELSE 80)
    ELSE IF h.num * 100 < 3 * h.den THEN (IF f0 - 5 > 60 THEN f0 - 5 ELSE 60)
    ELSE f0

\* C11: a successful update_weights of a strategy whose current frequency
\* weight (its most recent frequency_ratio snapshot) is f0 and whose window
\* has hit rate h returns and appends frequency_ratio = min(0.80, f0 + 0.05)
\* if h > 0.05, max(0.60, f0 - 0.05) if h < 0.03, f0 otherwise, and
\* random_ratio = 1 - frequency_ratio.
C11_StepRuleFromCurrentWeight ==
    [][ (call'.op = "update_weights" /\ ret'.status = "ok" /\ ret'.value # None) =>
          LET s    == call'.strategy_name
              perf == get_strategy_performance(predictions, prediction_results,
                                               s, call'.window)
              f    == SteppedFrequency(LatestFrequency(adaptive_weights, s),
                                       perf.hit_rate_3plus)
              n    == Len(adaptive_weights')
          IN  /\ ret'.value.frequency_ratio = f
              /\ ret'.value.random_ratio = 100 - f
              /\ n = Len(adaptive_weights) + 2
              /\ adaptive_weights'[n - 1].weight_type = "frequency_ratio"
              /\ adaptive_weights'[n - 1].weight_value = f
              /\ adaptive_weights'[n].weight_type = "random_ratio"
              /\ adaptive_weights'[n].weight_value = 100 - f ]_vars

\* C12: update_weights of a strategy with at least 5 results in the window
\* and no frequency_ratio snapshot takes f0 = 0.70, returns a mapping and
\* appends a snapshot pair; it does not fail.
C12_UnseededStrategyDefaults ==
    [][ call'.op = "update_weights" =>
          LET s    == call'.strategy_name
              perf == get_strategy_performance(predictions, prediction_results,
                                               s, call'.window)
          IN  ( /\ perf # None
                /\ perf.n_predictions >= 5
                /\ WeightRowsOf(s, "frequency_ratio") = {} )
              => /\ ret'.status = "ok"
                 /\ ret'.value # None
                 /\ ret'.value.frequency_ratio = SteppedFrequency(70, perf.hit_rate_3plus)
                 /\ Len(adaptive_weights') = Len(adaptive_weights) + 2 ]_vars

\* a ticket of exactly 7 distinct numbers in 1..50
ValidTicket(t) ==
    /\ Len(t) = 7
    /\ Cardinality(Range(t)) = 7
    /\ Range(t) \subseteq 1..50

\* C13: save_prediction fails with a ValidationError and stores nothing when
\* a ticket is not 7 distinct numbers in 1..50; so every stored prediction
\* has only tickets of exactly 7 distinct numbers in 1..50.
C13_InvalidTicketsRejected ==
    /\ \A i \in 1..Len(predictions) :
           \A k \in 1..Len(predictions[i].tickets) :
               ValidTicket(predictions[i].tickets[k])
    /\ ( /\ call.op = "save_prediction"
         /\ \E k \in 1..Len(call.tickets) : ~ValidTicket(call.tickets[k]) )
       => ret.status = "ValidationError"

\* C14: evaluate_prediction with a prediction_id that no stored prediction
\* has fails with a not-found error and leaves the store unchanged: no Result
\* is written and no prediction's evaluated flag changes.
C14_UnknownIdNotFound ==
    [][ ( /\ call'.op = "evaluate_prediction"
          /\ \A i \in 1..Len(predictions) :
                 predictions[i].prediction_id # call'.prediction_id )
        => /\ ret'.status = "ValueError"
           /\ ret'.value = [error |-> "not found"]
           /\ prediction_results' = prediction_results
           /\ predictions' = predictions
           /\ adaptive_weights' = adaptive_weights ]_vars

\* evaluate_prediction has failed with "not found" for an unknown id while
\* the ledger holds an unresolved prediction with tickets
C14_Witness ==
    /\ call.op = "evaluate_prediction"
    /\ ret.status = "ValueError"
    /\ ret.value = [error |-> "not found"]
    /\ \A i \in 1..Len(predictions) :
           predictions[i].prediction_id # call.prediction_id
    /\ \E i \in 1..Len(predictions) :
           ~predictions[i].evaluated /\ predictions[i].tickets # <<>>

\* the rows of prediction_results whose prediction is of a strategy
ResultsOfStrategy(s) ==
    {i \in 1..Len(prediction_results) :
        \E j \in 1..Len(predictions) :
            /\ predictions[j].prediction_id = prediction_results[i].prediction_id
            /\ predictions[j].strategy_name = s}

\* C15: for every strategy name and every window size >= 0,
\* get_strategy_performance returns None if and only if the strategy has no
\* Result at all; otherwise hit_rate_3plus is exactly (results in the window
\* with best_match >= 3) / n, n the number of results in the window, and
\* lies in [0,1].
C15_AbsentIffNoResults ==
    (call.op = "get_strategy_performance" /\ call.window >= 0) =>
        LET s    == call.strategy_name
            rows == PerformanceRows(predictions, prediction_results, s, call.window)
            hits == Cardinality({k \in 1..Len(rows) : rows[k].best_match >= 3})
        IN  /\ (ret.value = None) <=> (ResultsOfStrategy(s) = {})
            /\ ret.value # None =>
                   /\ ret.value.n_predictions = Len(rows)
                   /\ ret.value.hit_rate_3plus = [num |-> hits, den |-> Len(rows)]
                   /\ Len(rows) > 0
                   /\ 0 <= hits /\ hits <= Len(rows)

\* C15 for the windows that can hold a result: for every strategy name and
\* every window size >= 1, get_strategy_performance returns None if and only
\* if the strategy has no Result; otherwise hit_rate_3plus is exactly
\* (results in the window with best_match >= 3) / n, with n >= 1 the number
\* of results in the window, and lies in [0,1].  With window 0 the window is
\* empty and the call returns None whatever the ledger holds.
C15_PositiveWindowAbsentIffNoResults ==
    call.op = "get_strategy_performance" =>
        LET s    == call.strategy_name
            used == IF call.window < Cardinality(ResultsOfStrategy(s))
                    THEN call.window ELSE Cardinality(ResultsOfStrategy(s))
            rows == PerformanceRows(predictions, prediction_results, s, call.window)
            hits == Cardinality({k \in 1..Len(rows) : rows[k].best_match >= 3})
        IN  /\ call.window = 0 => ret.value = None
            /\ call.window >= 1 =>
                   /\ (ret.value = None) <=> (ResultsOfStrategy(s) = {})
                   /\ ret.value # None =>
                          /\ ret.value.n_predictions = used
                          /\ ret.value.hit_rate_3plus = [num |-> hits, den |-> used]
                          /\ used >= 1
                          /\ 0 <= hits /\ hits <= used

\* get_strategy_performance has answered for a window of 3 that holds both
\* a result with best_match >= 3 and one below, over a ledger with more
\* results of the strategy than the window takes
C15_Witness ==
    /\ call.op = "get_strategy_performance"
    /\ call.window = 3
    /\ ret.value # None
    /\ ret.value.n_predictions = 3
    /\ ret.value.hit_rate_3plus.num > 0
    /\ ret.value.hit_rate_3plus.num < 3
    /\ Cardinality(ResultsOfStrategy(call.strategy_name)) > 3

\* the tickets of the stored prediction with an id
TicketsOf(prediction_id) ==
    LET i == CHOOSE i \in 1..Len(predictions) :
                 predictions[i].prediction_id = prediction_id
    IN  predictions[i].tickets

\* the Result written last
LastResult == prediction_results[Len(prediction_results)]

\* C16: a successful evaluate_prediction records one match count per ticket,
\* in the order of the prediction's ticket list, the i-th being the number
\* of values the i-th ticket shares with the actual numbers (0..7);
\* best_match is their maximum and total_matches their sum; the returned
\* summary carries the values of the stored Result.
C16_MatchCountsPerTicket ==
    (call.op = "evaluate_prediction" /\ ret.status = "ok") =>
        LET tickets == TicketsOf(call.prediction_id)
            actual  == Range(call.actual_numbers)
            counts  == ret.value.ticket_matches
        IN  /\ Len(counts) = Len(tickets)
            /\ \A i \in 1..Len(tickets) :
                   /\ counts[i] = Cardinality({x \in Range(tickets[i]) : x \in actual})
                   /\ counts[i] \in 0..7
            /\ \E i \in 1..Len(counts) : ret.value.best_match = counts[i]
            /\ \A i \in 1..Len(counts) : counts[i] <= ret.value.best_match
            /\ ret.value.total_matches = SumSeq(counts)
            /\ ret.value.prediction_id = call.prediction_id
            /\ LastResult.prediction_id = call.prediction_id
            /\ LastResult.actual_numbers = call.actual_numbers
            /\ LastResult.ticket_matches = counts
            /\ LastResult.best_match = ret.value.best_match
            /\ LastResult.total_matches = ret.value.total_matches
            /\ LastResult.prize_value = ret.value.prize_value

\* a prediction of two tickets has been evaluated against a draw that the
\* first ticket matches in 4 numbers and the second in 3
C16_Witness ==
    /\ call.op = "evaluate_prediction"
    /\ ret.status = "ok"
    /\ TicketsOf(call.prediction_id) = <<TicketB, TicketA>>
    /\ ret.value.ticket_matches = <<4, 3>>
    /\ LastResult.ticket_matches = <<4, 3>>

\* the payout of a ticket with m matches, as the claim lists it
Payout(m) ==
    IF m = 7 THEN 10000000
    ELSE IF m = 6 THEN 100000
    ELSE IF m = 5 THEN 1500
    ELSE IF m = 4 THEN 50
    ELSE IF m = 3 THEN 20
    ELSE 0

\* C17: the prize value of an evaluation is the sum over the prediction's
\* tickets of the fixed payout of the ticket's match count (7: 10,000,000;
\* 6: 100,000; 5: 1,500; 4: 50; 3: 20; 2 or fewer: 0); tickets
\* [[1,2,3,4,5,6,7]] against [1,2,3,8,9,10,11] give best_match 3 and prize 20.
C17_PrizeIsSumOfPayouts ==
    (call.op = "evaluate_prediction" /\ ret.status = "ok") =>
        LET tickets == TicketsOf(call.prediction_id)
            actual  == Range(call.actual_numbers)
            payouts == [i \in 1..Len(tickets) |->
                           Payout(Cardinality(Range(tickets[i]) \cap actual))]
        IN  /\ ret.value.prize_value = SumSeq(payouts)
            /\ LastResult.prize_value = SumSeq(payouts)
            /\ ( /\ tickets = <<<<1, 2, 3, 4, 5, 6, 7>>>>
                 /\ call.actual_numbers = <<1, 2, 3, 8, 9, 10, 11>> )
               => /\ ret.value.best_match = 3
                  /\ ret.value.prize_value = 20

\* the claim's scenario has been evaluated
C17_Witness ==
    /\ call.op = "evaluate_prediction"
    /\ ret.status = "ok"
    /\ TicketsOf(call.prediction_id) = <<<<1, 2, 3, 4, 5, 6, 7>>>>
    /\ call.actual_numbers = <<1, 2, 3, 8, 9, 10, 11>>
    /\ LastResult.prize_value = 20

\* C18: get_unevaluated_predictions returns exactly the predictions whose
\* evaluated flag is not set, each once and none resolved, ordered by
\* target_draw_date ascending.
C18_UnresolvedByTargetDate ==
    call.op = "get_unevaluated_predictions" =>
        LET rows == ret.value
            open == {i \in 1..Len(predictions) : ~predictions[i].evaluated}
        IN  /\ Len(rows) = Cardinality(open)
            /\ \A i \in open :
                   \E k \in 1..Len(rows) :
                       /\ rows[k].prediction_id = predictions[i].prediction_id
                       /\ rows[k].target_draw_date = predictions[i].target_draw_date
                       /\ rows[k].strategy_name = predictions[i].strategy_name
                       /\ rows[k].tickets = predictions[i].tickets
            /\ \A k \in 1..Len(rows) :
                   /\ \E i \in open : predictions[i].prediction_id = rows[k].prediction_id
                   /\ ~IsResolved(rows[k].prediction_id)
            /\ \A k, l \in 1..Len(rows) :
                   k # l => rows[k].prediction_id # rows[l].prediction_id
            /\ \A k, l \in 1..Len(rows) :
                   k < l => rows[k].target_draw_date <= rows[l].target_draw_date

\* the list holds two predictions, the one saved later first because its
\* target date is earlier, and leaves out a resolved prediction of this run
C18_Witness ==
    /\ call.op = "get_unevaluated_predictions"
    /\ Len(ret.value) = 2
    /\ ret.value[1].prediction_id > ret.value[2].prediction_id
    /\ ret.value[1].target_draw_date < ret.value[2].target_draw_date
    /\ \E i \in 1..Len(predictions) : predictions[i].evaluated

\* the results of a strategy that fewer than w of its results are newer than
NewestResults(s, w) ==
    LET all == ResultsOfStrategy(s)
    IN  {i \in all :
            Cardinality({j \in all :
                prediction_results[j].evaluated_at > prediction_results[i].evaluated_at}) < w}

\* C19: the window get_strategy_performance(strategy, window) uses holds
\* min(window, number of the strategy's Results) Results, all of predictions
\* of that strategy, and they are the most recently evaluated ones: no Result
\* outside the window has a later evaluated_at than one inside; the summary
\* returned is computed from them.
C19_WindowIsNewest ==
    (call.op = "get_strategy_performance" /\ call.window >= 0) =>
        LET s      == call.strategy_name
            all    == ResultsOfStrategy(s)
            rows   == PerformanceRows(predictions, prediction_results, s, call.window)
            inside == {i \in all : \E k \in 1..Len(rows) :
                          rows[k].result_id = prediction_results[i].result_id}
            size   == IF call.window < Cardinality(all)
                      THEN call.window ELSE Cardinality(all)
        IN  /\ Len(rows) = size
            /\ Cardinality(inside) = size
            /\ \A k \in 1..Len(rows) :
                   \E i \in all : prediction_results[i] = rows[k]
            /\ \A i \in inside, j \in all \ inside :
                   prediction_results[j].evaluated_at <= prediction_results[i].evaluated_at
            /\ inside = NewestResults(s, call.window)
            /\ ret.value # None =>
                   /\ ret.value.n_predictions = size
                   /\ ret.value.hit_rate_3plus.num =
                          Cardinality({i \in NewestResults(s, call.window) :
                                          prediction_results[i].best_match >= 3})

\* a window of 3 over more than 3 results of the strategy, whose newest
\* result is a hit and whose oldest, left outside the window, is not
C19_Witness ==
    /\ call.op = "get_strategy_performance"
    /\ call.window = 3
    /\ ret.value # None
    /\ LET all == ResultsOfStrategy(call.strategy_name)
       IN  /\ Cardinality(all) > 3
           /\ \E i \in all \ NewestResults(call.strategy_name, 3) :
                  prediction_results[i].best_match < 3
           /\ \E i \in NewestResults(call.strategy_name, 3) :
                  prediction_results[i].best_match >= 3
    /\ ret.value.hit_rate_3plus.num >= 1

\* C20: the ledger is append-only: no step deletes a prediction or changes
\* anything of it but its evaluated flag, and no step deletes or changes an
\* existing Result or weight snapshot; the Results and the snapshots of a
\* state are a prefix of those of the next, hence of every later state.
C20_AppendOnly ==
    [][ /\ Len(predictions') >= Len(predictions)
        /\ \A i \in 1..Len(predictions) :
               [predictions'[i] EXCEPT !.evaluated = FALSE]
                   = [predictions[i] EXCEPT !.evaluated = FALSE]
        /\ Len(prediction_results') >= Len(prediction_results)
        /\ SubSeq(prediction_results', 1, Len(prediction_results)) = prediction_results
        /\ Len(adaptive_weights') >= Len(adaptive_weights)
        /\ SubSeq(adaptive_weights', 1, Len(adaptive_weights)) = adaptive_weights ]_vars

\* a run has saved a prediction, written a Result and appended a snapshot
\* pair to the seeded one
C20_Witness ==
    /\ call.op = "update_weights"
    /\ ret.status = "ok"
    /\ ret.value # None
    /\ Len(adaptive_weights) >= 4
    /\ NewPredictions >= 1
    /\ NewResults >= 1

\* C21: for tickets T1, T2 of 7 distinct numbers in 1..50 the match count of
\* the evaluator is the number of values they share, lies in 0..7, and is the
\* same with the two tickets exchanged.
C21_MatchCountSymmetric ==
    call.op = "match_count" =>
        LET t1 == call.ticket
            t2 == call.actual_numbers
        IN  (ValidTicket(t1) /\ ValidTicket(t2)) =>
                /\ ret.value = Cardinality({x \in 1..50 :
                                   x \in Range(t1) /\ x \in Range(t2)})
                /\ ret.value \in 0..7
                /\ ret.value = TicketMatches(<<t2>>, t1)[1]

\* two different tickets that share 4 numbers, one in ascending and one in
\* descending order, have been matched
C21_Witness ==
    /\ call.op = "match_count"
    /\ ValidTicket(call.ticket) /\ ValidTicket(call.actual_numbers)
    /\ call.ticket = <<1, 2, 3, 4, 5, 6, 7>>
    /\ call.actual_numbers = <<10, 9, 8, 7, 6, 5, 4>>
    /\ ret.value = 4

\* the frequency_ratio snapshots of a strategy, oldest first (row order is
\* the order of their timestamps)
FrequencyHistory(s) ==
    LET idx == SelectIdx(Len(adaptive_weights), WeightRowsOf(s, "frequency_ratio"))
    IN  [k \in 1..Len(idx) |-> adaptive_weights[idx[k]]]

\* C22: the updater integrates over its own output: each frequency_ratio a
\* successful update writes is the step rule applied to the frequency_ratio
\* the strategy's previous snapshot holds (the seeded 0.70 before the first
\* update), with the hit rate the update saw; so updates with hit rate
\* > 0.05 write 0.75, 0.80, 0.80, ... and updates with hit rate < 0.03 write
\* 0.65, 0.60, 0.60, ...
C22_IntegratesOwnOutput ==
    \A s \in Strategies :
        LET h == FrequencyHistory(s)
        IN  \A k \in 2..Len(h) :
                h[k].weight_value
                    = SteppedFrequency(h[k - 1].weight_value, h[k].performance_score)

\* C23: every successful update_weights, also one that leaves the weight as
\* it was, appends exactly two snapshots of the strategy, frequency_ratio
\* then random_ratio, both with performance_score = the window's hit rate
\* and n_observations = the window's result count n >= 5; the returned
\* mapping carries the two values written, that score and that count.
C23_SnapshotPairPerUpdate ==
    [][ (call'.op = "update_weights" /\ ret'.status = "ok" /\ ret'.value # None) =>
          LET s      == call'.strategy_name
              window == NewestResults(s, call'.window)
              rate   == [num |-> Cardinality({i \in window :
                                    prediction_results[i].best_match >= 3}),
                         den |-> Cardinality(window)]
              n      == Len(adaptive_weights)
              new    == adaptive_weights'
          IN  /\ Cardinality(window) >= 5
              /\ Len(new) = n + 2
              /\ SubSeq(new, 1, n) = adaptive_weights
              /\ new[n + 1].weight_type = "frequency_ratio"
              /\ new[n + 2].weight_type = "random_ratio"
              /\ \A k \in {n + 1, n + 2} :
                     /\ new[k].strategy_name = s
                     /\ new[k].performance_score = rate
                     /\ new[k].n_observations = Cardinality(window)
              /\ ret'.value.frequency_ratio = new[n + 1].weight_value
              /\ ret'.value.random_ratio = new[n + 2].weight_value
              /\ ret'.value.performance_score = rate
              /\ ret'.value.n_observations = Cardinality(window) ]_vars

\* an update over a window of 20 results with one hit (hit rate 0.05, in the
\* dead band) has appended a pair that repeats the seeded 0.70 / 0.30
C23_Witness ==
    /\ call.op = "update_weights"
    /\ ret.status = "ok"
    /\ ret.value # None
    /\ ret.value.performance_score = [num |-> 1, den |-> 20]
    /\ ret.value.frequency_ratio = 70
    /\ Len(adaptive_weights) = 4
    /\ adaptive_weights[3].weight_value = 70
    /\ adaptive_weights[4].weight_value = 30
    /\ adaptive_weights[4].n_observations = 20

C25_ResolvedOnceByEvaluate ==
    [][ /\ \A i \in (Len(predictions) + 1)..Len(predictions') :
               ~predictions'[i].evaluated
        /\ \A i \in 1..Len(predictions) :
               /\ i <= Len(predictions')
               /\ predictions[i].evaluated => predictions'[i].evaluated
               /\ predictions'[i].prediction_id = predictions[i].prediction_id
               /\ predictions'[i].target_draw_date = predictions[i].target_draw_date
               /\ predictions'[i].strategy_name = predictions[i].strategy_name
               /\ predictions'[i].portfolio_size = predictions[i].portfolio_size
               /\ predictions'[i].tickets = predictions[i].tickets
               /\ (~predictions[i].evaluated /\ predictions'[i].evaluated) =>
                      /\ call'.op \in {"evaluate_prediction", "auto_evaluate_pending"}
                      /\ call'.op = "evaluate_prediction" =>
                             /\ call'.prediction_id = predictions[i].prediction_id
                             /\ ret'.status = "ok"
                      /\ \E k \in (Len(prediction_results) + 1)..Len(prediction_results') :
                             prediction_results'[k].prediction_id
                                 = predictions[i].prediction_id ]_vars

\* a prediction of this run, resolved by evaluate_prediction, has been
\* evaluated a second time and is still resolved
C25_Witness ==
    /\ call.op = "evaluate_prediction"
    /\ ret.status = "ok"
    /\ Cardinality(ResultsOf(prediction_results, call.prediction_id)) = 2
    /\ \E i \in 1..Len(predictions) :
           /\ predictions[i].prediction_id = call.prediction_id
           /\ predictions[i].target_draw_date # 0
           /\ predictions[i].evaluated

\* the sum of a column over a set of rows of prediction_results
RECURSIVE SumColumn(_, _)
SumColumn(rows, column) ==
    IF rows = {} THEN 0
    ELSE LET i == CHOOSE i \in rows : TRUE
         IN  prediction_results[i][column] + SumColumn(rows \ {i}, column)

\* C26: a summary get_strategy_performance returns over a window of n
\* results has n_predictions = n, best_ever = the largest best_match of the
\* window, total_prize_won = the sum of its prize values, and its three
\* means are sums over the window divided by n.
C26_AggregatesOverWindow ==
    (call.op = "get_strategy_performance" /\ ret.value # None) =>
        LET window == NewestResults(call.strategy_name, call.window)
            n      == Cardinality(window)
            v      == ret.value
        IN  /\ v.n_predictions = n
            /\ \E i \in window : prediction_results[i].best_match = v.best_ever
            /\ \A i \in window : prediction_results[i].best_match <= v.best_ever
            /\ v.total_prize_won = SumColumn(window, "prize_value")
            /\ v.avg_best_match = [num |-> SumColumn(window, "best_match"), den |-> n]
            /\ v.avg_total_matches = [num |-> SumColumn(window, "total_matches"), den |-> n]
            /\ v.avg_prize_value = [num |-> SumColumn(window, "prize_value"), den |-> n]

\* a summary over the 3 newest of more results, with different best_match
\* values and prizes inside the window
C26_Witness ==
    /\ call.op = "get_strategy_performance"
    /\ call.window = 3
    /\ ret.value # None
    /\ ret.value.n_predictions = 3
    /\ Cardinality(ResultsOfStrategy(call.strategy_name)) > 3
    /\ ret.value.best_ever = 3
    /\ ret.value.total_prize_won = 20
    /\ ret.value.avg_best_match = [num |-> 7, den |-> 3]

\* C27: prediction ids are unique and handed out in increasing order: a
\* save_prediction call returns an id greater than the id of every stored
\* prediction (every id an earlier call returned, as no prediction is ever
\* deleted) and stores its row under that id; after any step the ids of the
\* stored predictions are strictly increasing in insertion order, so no two
\* are equal.
C27_IdsUniqueAndIncreasing ==
    [][ /\ call'.op = "save_prediction" =>
              /\ \A i \in 1..Len(predictions) :
                     predictions[i].prediction_id < ret'.value
              /\ Len(predictions') = Len(predictions) + 1
              /\ predictions'[Len(predictions')].prediction_id = ret'.value
        /\ \A i, j \in 1..Len(predictions') :
               i < j => predictions'[i].prediction_id < predictions'[j].prediction_id ]_vars

\* the second save_prediction of a run has returned, after a prediction of
\* the run was resolved
C27_Witness ==
    /\ call.op = "save_prediction"
    /\ NewPredictions = 2
    /\ ret.value = predictions[Len(predictions)].prediction_id
    /\ ret.value > predictions[Len(predictions) - 1].prediction_id
    /\ predictions[Len(predictions) - 1].evaluated


\* the predictions that auto_evaluate_pending would resolve: not evaluated,
\* with a draw of their target date stored
Resolvable ==
    {i \in 1..Len(predictions) :
        ~predictions[i].evaluated /\ DrawFor(predictions[i]) # NoDraw}

\* C28: in one generate cycle the steps run in the order reconcile, update
\* weights, generate and save.  So when the cycle's update_weights runs, the
\* reconciliation of the same cycle has just returned and left no prediction
\* unresolved whose draw is stored, and the update counts every Result of the
\* strategy (up to its window), the ones that reconciliation wrote included;
\* the prediction a cycle saves is unevaluated and has no Result when the
\* cycle ends; and a prediction is resolved only by the reconciliation of a
\* cycle that started after the cycle that saved it, so until then no Result
\* of it is in any window.
C28_CycleOrder ==
    [][ /\ call'.op = "update_weights" =>
              /\ Resolvable = {}
              /\ ret'.value # None =>
                     ret'.value.n_observations =
                         Min(UpdateWindow, Cardinality(ResultsOfStrategy("hybrid_v1")))
        /\ call'.op = "save_prediction" =>
              /\ ~predictions'[Len(predictions')].evaluated
              /\ ResultsOf(prediction_results', ret'.value) = {}
        /\ \A i \in 1..Len(predictions) :
               (ResultsOf(prediction_results, predictions[i].prediction_id) = {}
                /\ ResultsOf(prediction_results', predictions[i].prediction_id) # {})
                   => /\ call.op = "scrape_data"
                      /\ call'.op = "auto_evaluate_pending" ]_vars

\* the update of a later cycle has adjusted the weights from a window that
\* holds the Result which that cycle's reconciliation wrote for the
\* prediction an earlier cycle saved
C28_Witness ==
    /\ call.op = "update_weights"
    /\ ret.value # None
    /\ NewPredictions = 1
    /\ NewResults = 1
    /\ ret.value.n_observations = HistoryLen + 1
    /\ predictions[Len(predictions)].evaluated


\* the operations that only read
QueryOps ==
    {"get_unevaluated_predictions", "get_strategy_performance",
     "get_current_weights", "get_learning_history"}

\* C29: a call of get_unevaluated_predictions, get_strategy_performance,
\* get_current_weights or get_learning_history leaves every table as it was
\* (predictions, results, weight snapshots and draws); a call of
\* update_weights leaves the predictions, the results and the draws as they
\* were, and keeps every weight snapshot it found, so that all it may do is
\* add snapshots.
C29_QueriesAndUpdateFrame ==
    [][ /\ call'.op \in QueryOps =>
              /\ predictions' = predictions
              /\ prediction_results' = prediction_results
              /\ adaptive_weights' = adaptive_weights
              /\ draws' = draws
        /\ call'.op = "update_weights" =>
              /\ predictions' = predictions
              /\ prediction_results' = prediction_results
              /\ draws' = draws
              /\ Len(adaptive_weights') >= Len(adaptive_weights)
              /\ SubSeq(adaptive_weights', 1, Len(adaptive_weights)) = adaptive_weights ]_vars

\* get_current_weights has answered for the strategy without a snapshot,
\* after an update_weights call wrote snapshots next to a ledger that holds
\* predictions and results
C29_Witness ==
    /\ call.op = "get_current_weights"
    /\ call.strategy_name = "other"
    /\ ret.value = get_current_weights(<<>>, "other")
    /\ Len(adaptive_weights) = 4
    /\ Len(predictions) > HistoryLen
    /\ Len(prediction_results) > HistoryLen


\* the strategies a step acts on: the one save_prediction or update_weights
\* was called with, and the one of the stored prediction evaluate_prediction
\* was called for
ActedStrategies ==
    CASE call'.op \in {"save_prediction", "update_weights"} -> {call'.strategy_name}
      [] call'.op = "evaluate_prediction" ->
             {predictions[i].strategy_name : i \in
                 {j \in 1..Len(predictions) :
                     predictions[j].prediction_id = call'.prediction_id}}
      [] OTHER -> {}

\* C30: strategies are isolated: a step that saves or evaluates a prediction
\* of strategy A, or updates the weights of A, leaves the value of
\* get_strategy_performance(B, w) and the value of get_current_weights(B) as
\* they were, for every other strategy B and every window w.
C30_StrategiesIsolated ==
    [][ \A A \in ActedStrategies, B \in Strategies \ ActedStrategies :
            /\ \A w \in QueryWindows \cup {DisplayWindow} :
                   get_strategy_performance(predictions', prediction_results', B, w)
                       = get_strategy_performance(predictions, prediction_results, B, w)
            /\ get_current_weights(adaptive_weights', B)
                   = get_current_weights(adaptive_weights, B) ]_vars

\* a prediction of hybrid_v1 was saved and has just been evaluated next to
\* the results of the other strategy, whose summary is not None
C30_Witness ==
    /\ call.op = "evaluate_prediction"
    /\ ret.status = "ok"
    /\ NewResults = 1
    /\ predictions[Len(predictions)].prediction_id = call.prediction_id
    /\ predictions[Len(predictions)].strategy_name = "hybrid_v1"
    /\ get_strategy_performance(predictions, prediction_results, "other", UpdateWindow) # None
    /\ get_strategy_performance(predictions, prediction_results, "hybrid_v1", UpdateWindow) # None


\* the snapshots that carry the values of a seeded row: hybrid_v1, the weight
\* type with its default value, score 0 and 0 observations
SeedRows(weights, wtype, value) ==
    {i \in 1..Len(weights) :
        /\ weights[i].strategy_name = "hybrid_v1"
        /\ weights[i].weight_type = wtype
        /\ weights[i].weight_value = value
        /\ weights[i].performance_score.num = 0
        /\ weights[i].n_observations = 0}

\* C31: constructing an AdaptiveLearner on an empty weight-snapshot table
\* appends the default pair (hybrid_v1: frequency_ratio 0.70 then
\* random_ratio 0.30, score 0, 0 observations) and nothing else; constructing
\* one on a table that holds a snapshot changes nothing; so once a learner
\* was constructed, whatever constructions and updates follow, the history
\* holds the seeded frequency row and the seeded random row exactly once
\* each, as its first two rows.
C31_SeededOnce ==
    [][ /\ call'.op = "AdaptiveLearner" =>
              IF adaptive_weights = <<>>
              THEN /\ Len(adaptive_weights') = 2
                   /\ SeedRows(adaptive_weights', "frequency_ratio",
                               DefaultFrequencyRatio) = {1}
                   /\ SeedRows(adaptive_weights', "random_ratio",
                               DefaultRandomRatio) = {2}
              ELSE adaptive_weights' = adaptive_weights
        /\ learner' =>
              /\ SeedRows(adaptive_weights', "frequency_ratio",
                          DefaultFrequencyRatio) = {1}
              /\ SeedRows(adaptive_weights', "random_ratio",
                          DefaultRandomRatio) = {2}
        /\ ~learner' => adaptive_weights' = <<>> ]_vars

\* a learner has just been constructed again on a table that holds the
\* seeded pair and the pairs of two updates
C31_Witness ==
    /\ call.op = "AdaptiveLearner"
    /\ Len(adaptive_weights) = 6
    /\ adaptive_weights[3].n_observations >= MinPredictions
    /\ adaptive_weights[5].n_observations >= MinPredictions

====
